---- MODULE Spec2Model ----
(***************************************************************************)
(* SmallTV Ultra: the device-synchronisation controller                    *)
(* (custom_components/smalltv_ultra/coordinator.py) with the device client *)
(* (api.py) and the entities that trigger it (button.py, select.py,        *)
(* __init__.py).                                                           *)
(*                                                                         *)
(* One step of the model is one stretch of coroutine code between two      *)
(* awaits: a device request, a camera fetch or the executor job is issued  *)
(* in one step and answered in a later one, and other coroutines of the    *)
(* event loop may run in between.  The controller holds no lock.           *)
(***************************************************************************)
EXTENDS Naturals, Sequences, FiniteSets

(* ------------------------------ bounds -------------------------------- *)

\* coroutines (update cycles, entity service calls) that may be in flight at once
MaxTasks == 2
\* camera entities that may be configured
MaxCameras == 2
\* config entries (devices) set up side by side
MaxEntries == 2
\* client methods called in a row when the client is exercised on its own
MaxCalls == 2
\* source image sides, frames per animation and seconds per frame when the
\* image processor is exercised on its own
MaxSide == 5
MaxFrames == 3
MaxSeconds == 2

Tasks == 1..MaxTasks

(* ------------------------------ const.py ------------------------------ *)

MODE_CAMERAS == "cameras"
MODE_BUILTIN == "builtin"
DEFAULT_MODE == "cameras"
Modes == {MODE_CAMERAS, MODE_BUILTIN}

\* the camera entity ids the options flow offers, and the label the cycle
\* derives from each: entity_id.split(".", 1)[-1].replace("_", " ")
CameraEntities == <<"camera.front_door", "camera.back_yard", "camera.garage", "camera.side_gate">>
Label(entity_id) ==
    CASE entity_id = "camera.front_door" -> "front door"
      [] entity_id = "camera.back_yard"  -> "back yard"
      [] entity_id = "camera.garage"     -> "garage"
      [] entity_id = "camera.side_gate"  -> "side gate"

\* the camera lists an options flow can save: the first n entities, in order
CameraLists == { [i \in 1..n |-> CameraEntities[i]] : n \in 0..MaxCameras }

(* ------------------------------- api.py ------------------------------- *)

\* What the HTTP session does with one request: answer 200, answer another
\* status, raise an aiohttp.ClientError (transport), raise an
\* aiohttp.ClientResponseError (with or without the duplicate Content-Length
\* text), or run into ClientTimeout(total=...), which aiohttp raises as
\* asyncio.TimeoutError.
GetOutcomes == {"200", "500", "ClientError", "Timeout"}
PostOutcomes == GetOutcomes \cup {"DuplicateContentLength", "ClientResponseError"}

\* isinstance(exc, aiohttp.ClientResponseError)
IsClientResponseError(o) == o \in {"DuplicateContentLength", "ClientResponseError"}
\* isinstance(exc, aiohttp.ClientError): response errors are client errors,
\* asyncio.TimeoutError is not
IsClientError(o) == o = "ClientError" \/ IsClientResponseError(o)

\* SmallTVApi._get_json: "ok", or the exception that leaves the call
_get_json(o) ==
    IF o = "200" THEN "ok"
    ELSE IF o = "500" THEN "SmallTVApiError"
    ELSE IF IsClientError(o) THEN "SmallTVApiError"
    ELSE "TimeoutError"

\* SmallTVApi._set
_set(o) ==
    IF o = "200" THEN "ok"
    ELSE IF o = "500" THEN "SmallTVApiError"
    ELSE IF IsClientError(o) THEN "SmallTVApiError"
    ELSE "TimeoutError"

\* SmallTVApi.upload_image
upload_image(o) ==
    IF o = "200" THEN "ok"
    ELSE IF o = "500" THEN "SmallTVApiError"
    ELSE IF IsClientResponseError(o)
         THEN (IF o = "DuplicateContentLength" THEN "ok" ELSE "SmallTVApiError")
    ELSE IF IsClientError(o) THEN "SmallTVApiError"
    ELSE "TimeoutError"

(* --------------------------- image_processor.py ------------------------ *)

\* what async_get_image hands back for one camera: an exception, image bytes
\* Pillow can decode, or bytes it cannot
FetchOutcomes == {"error", "image", "garbage"}

\* create_camera_gif: every frame goes through _process_frame, whose
\* Image.open raises on undecodable bytes; nothing catches it in the loop
create_camera_gif(frames) ==
    IF \E k \in 1..Len(frames) : ~frames[k].decodable THEN "raise"
    ELSE IF Len(frames) = 0 THEN "raise"
    ELSE "gif"

\* what else the executor job can raise besides a decode error: any Exception
\* out of the font loading, the quantisation or the GIF encoder
ComposeFaults == {"none", "Exception"}

(* ------------------------------- state -------------------------------- *)

VARIABLES
    _needs_album_init,  \* coordinator._needs_album_init  (the spec's needs_reinit)
    _firmware_version,  \* coordinator._firmware_version  (last_known_firmware)
    options,            \* entry.options: [mode, cameras]
    pc,                 \* per coroutine: the await it is suspended at
    cyc,                \* per coroutine: the locals of _async_update_data
    log,                \* per coroutine: the awaits answered in this cycle, in order
    hist,               \* per coroutine: what was observed during the cycle
    result,             \* per coroutine: how the cycle ended
    fresh,              \* no cycle has started since construction
    away,               \* the mode has left cameras and no camera cycle ran since
    calls,              \* the client or the image processor called on its own:
                        \* what was called, with what, and what it gave
    coordinators        \* hass.data[DOMAIN]: the coordinator of each config entry,
                        \* when several devices are set up side by side

vars == <<_needs_album_init, _firmware_version, options,
          pc, cyc, log, hist, result, fresh, away, calls, coordinators>>

NoCyc == [cameras |-> <<>>, i |-> 0, frames |-> <<>>]
NoHist == [forced |-> FALSE, prior |-> FALSE, startNeeds |-> FALSE,
           alone |-> FALSE, cleared |-> FALSE, firstBack |-> FALSE,
           theme |-> 0, themeResult |-> "none", themeSince |-> FALSE]
\* (theme, themeResult: what async_select_option asked the device for and was
\* answered, kept until the probe of the refresh it forces is answered;
\* themeSince: set_theme(3) was issued since this coroutine forced a refresh)
NoResult == [kind |-> "none", mode |-> "none", cameras |-> <<>>, endNeeds |-> FALSE]

\* the coroutine is suspended at an await
InFlight(t) == pc[t] \notin {"idle", "done"}
\* a new coroutine takes the lowest free slot
FreeSlot(t) == pc[t] = "idle" /\ \A u \in Tasks : u < t => pc[u] # "idle"

(* ----------------------- coordinator.py: __init__ ---------------------- *)

CoordinatorInit_FlagClear == [needs_album_init |-> FALSE, firmware_version |-> "unknown"]

\* SmallTVUltraCoordinator.__init__
CoordinatorInit == [needs_album_init |-> TRUE, firmware_version |-> "unknown"]

Entries == 1..MaxEntries
\* the coordinator async_setup_entry constructs for one of several entries,
\* with the mode of the entry's options, no cycle running, none run yet
EntryInit(mode) ==
    [_needs_album_init |-> CoordinatorInit.needs_album_init,
     _firmware_version |-> CoordinatorInit.firmware_version,
     mode |-> mode, pc |-> "idle", frames |-> <<>>, last |-> "none"]

\* a config entry as the config flow creates it (no options yet) and the
\* coordinator async_setup_entry constructs for it
Init ==
    /\ _needs_album_init = CoordinatorInit.needs_album_init
    /\ _firmware_version = CoordinatorInit.firmware_version
    /\ options = [mode |-> DEFAULT_MODE, cameras |-> <<>>]
    /\ pc = [t \in Tasks |-> "idle"]
    /\ cyc = [t \in Tasks |-> NoCyc]
    /\ log = [t \in Tasks |-> <<>>]
    /\ hist = [t \in Tasks |-> NoHist]
    /\ result = [t \in Tasks |-> NoResult]
    /\ fresh = TRUE
    /\ away = FALSE
    /\ calls = <<>>
    /\ coordinators = [e \in Entries |-> EntryInit(DEFAULT_MODE)]

(* --------------------------- bookkeeping ------------------------------ *)

\* coroutine t starts (the flag was `prior` when it was called and is `needs`
\* as the cycle begins): every coroutine in flight now overlaps another one
HistAtStart(t, forced, prior, needs) ==
    [u \in Tasks |->
        IF u = t
        THEN [forced |-> forced, prior |-> prior, startNeeds |-> needs,
              alone |-> \A w \in Tasks \ {t} : ~InFlight(w),
              cleared |-> FALSE, firstBack |-> FALSE,
              theme |-> hist[t].theme, themeResult |-> hist[t].themeResult,
              themeSince |-> FALSE]
        ELSE IF InFlight(u) THEN [hist[u] EXCEPT !.alone = FALSE] ELSE hist[u]]

\* the flag was cleared while these coroutines were in flight
HistAtClear(h) ==
    [u \in Tasks |-> IF InFlight(u) THEN [h[u] EXCEPT !.cleared = TRUE] ELSE h[u]]

\* set_theme(3) is issued while these coroutines, having forced a refresh,
\* are in flight
HistAtTheme(h) ==
    [u \in Tasks |-> IF InFlight(u) /\ h[u].forced
                     THEN [h[u] EXCEPT !.themeSince = TRUE] ELSE h[u]]

Answered(t, cmd, r) == log' = [log EXCEPT ![t] = Append(@, <<cmd, r>>)]

\* _async_update_data returns or raises; the flag is `needs` as it does
Finish(t, kind, mode, labels, needs) ==
    /\ pc' = [pc EXCEPT ![t] = "done"]
    /\ cyc' = [cyc EXCEPT ![t] = NoCyc]
    /\ result' = [result EXCEPT ![t] =
            [kind |-> kind, mode |-> mode, cameras |-> labels, endNeeds |-> needs]]

Labels(frames) == [k \in 1..Len(frames) |-> frames[k].label]

(* ------------------ coordinator.py: async_force_refresh ---------------- *)

force_refresh_FlagKept(old) == old

\* the value async_force_refresh assigns to _needs_album_init (line 143)
force_refresh(old) == TRUE

\* async_force_refresh, up to the first await of the cycle it starts:
\* set the flag, then async_refresh() enters _async_update_data, which
\* issues get_info
async_force_refresh(t) ==
    /\ _needs_album_init' = force_refresh(_needs_album_init)
    /\ pc' = [pc EXCEPT ![t] = "get_info"]
    /\ hist' = HistAtStart(t, TRUE, _needs_album_init, _needs_album_init')
    /\ fresh' = FALSE

\* ... called by async_select_option after its theme request was answered r
async_force_refresh_after(t, r) ==
    /\ _needs_album_init' = force_refresh(_needs_album_init)
    /\ pc' = [pc EXCEPT ![t] = "get_info"]
    /\ hist' = [HistAtStart(t, TRUE, _needs_album_init, _needs_album_init')
                    EXCEPT ![t].themeResult = r]
    /\ fresh' = FALSE

\* button.py: SmallTVForceRefreshButton.async_press
async_press(t) ==
    /\ FreeSlot(t)
    /\ async_force_refresh(t)
    /\ UNCHANGED <<_firmware_version, options, cyc, log, result, away, calls, coordinators>>

\* the periodic timer (or the first refresh of async_setup_entry) enters
\* _async_update_data, which issues get_info
scheduled_refresh(t) ==
    /\ FreeSlot(t)
    /\ pc' = [pc EXCEPT ![t] = "get_info"]
    /\ hist' = HistAtStart(t, FALSE, _needs_album_init, _needs_album_init)
    /\ fresh' = FALSE
    /\ UNCHANGED <<_needs_album_init, _firmware_version, options,
                   cyc, log, result, away, calls, coordinators>>

(* ---------------- select.py: async_select_option ----------------------- *)

\* the theme async_select_option asks the device for (lines 61-66)
select_theme(option) == IF option = MODE_CAMERAS THEN 3 ELSE 1

\* persist the new mode (which schedules the update listener when it differs),
\* then issue set_theme(3) or set_theme(1)
async_select_option(t, option) ==
    /\ FreeSlot(t)
    /\ options' = [options EXCEPT !.mode = option]
    /\ away' = (away \/ option = MODE_BUILTIN)
    /\ pc' = [pc EXCEPT ![t] = "select_theme"]
    /\ hist' = [(IF select_theme(option) = 3
                 THEN HistAtTheme(HistAtStart(t, FALSE, _needs_album_init, _needs_album_init))
                 ELSE HistAtStart(t, FALSE, _needs_album_init, _needs_album_init))
                    EXCEPT ![t].theme = select_theme(option)]
    /\ UNCHANGED <<_needs_album_init, _firmware_version, cyc, log, result, fresh, calls, coordinators>>

after_select_theme_Uncaught(r) == IF r = "ok" THEN "async_force_refresh" ELSE "raise"

\* where lines 60-70 go once the theme request is answered: whatever it
\* raised is swallowed (except Exception: pass)
after_select_theme(r) == "async_force_refresh"

\* the theme request is answered with o, and async_force_refresh follows
select_theme_done(t, o) ==
    /\ pc[t] = "select_theme"
    /\ IF after_select_theme(_set(o)) = "raise"
       THEN /\ Finish(t, _set(o), "none", <<>>, _needs_album_init)
            /\ UNCHANGED <<_needs_album_init, hist, fresh>>
       ELSE /\ async_force_refresh_after(t, _set(o))
            /\ UNCHANGED <<cyc, result>>
    /\ UNCHANGED <<_firmware_version, options, log, away, calls, coordinators>>

(* ----------------- coordinator.py: _async_update_data ------------------ *)

after_get_info_AlwaysAppInfo(r, mode, cameras) ==
    IF r = "SmallTVApiError" THEN "UpdateFailed"
    ELSE IF r # "ok" THEN "raise"
    ELSE "get_app_info"

after_get_info_NoCamerasUpload(r, mode, cameras) ==
    IF r = "SmallTVApiError" THEN "UpdateFailed"
    ELSE IF r # "ok" THEN "raise"
    ELSE IF mode = MODE_BUILTIN THEN "get_app_info"
    ELSE IF cameras = <<>> THEN "upload_image"
    ELSE "fetch"

after_get_info_ModeSwapped(r, mode, cameras) ==
    IF r = "SmallTVApiError" THEN "UpdateFailed"
    ELSE IF r # "ok" THEN "raise"
    ELSE IF mode = MODE_CAMERAS THEN "get_app_info"
    ELSE IF cameras = <<>> THEN "return"
    ELSE "fetch"

after_get_info_ProbeIgnored(r, mode, cameras) ==
    IF mode = MODE_BUILTIN THEN "get_app_info"
    ELSE IF cameras = <<>> THEN "return"
    ELSE "fetch"

\* where lines 63-88 go once get_info is answered: SmallTVApiError becomes
\* UpdateFailed, any other exception leaves the cycle as it is; otherwise
\* builtin mode asks for the app info, camera mode returns when no camera is
\* configured and else starts fetching
after_get_info(r, mode, cameras) ==
    IF r = "SmallTVApiError" THEN "UpdateFailed"
    ELSE IF r # "ok" THEN "raise"
    ELSE IF mode = MODE_BUILTIN THEN "get_app_info"
    ELSE IF cameras = <<>> THEN "return"
    ELSE "fetch"

\* lines 63-99 after get_info is answered
get_info_done(t, o, v) ==
    /\ pc[t] = "get_info"
    /\ Answered(t, "get_info", _get_json(o))
    /\ LET r == _get_json(o)
           next == after_get_info(r, options.mode, options.cameras)
       IN /\ _firmware_version' = IF r = "ok" THEN v ELSE _firmware_version
          /\ away' = IF r = "ok" /\ options.mode # MODE_BUILTIN THEN FALSE ELSE away
          /\ hist' = [hist EXCEPT
                        ![t].firstBack = (r = "ok" /\ options.mode # MODE_BUILTIN /\ away),
                        ![t].theme = 0, ![t].themeResult = "none"]
          /\ IF next \in {"UpdateFailed", "raise"}
             THEN Finish(t, IF next = "raise" THEN "TimeoutError" ELSE next,
                         "none", <<>>, _needs_album_init)
             ELSE IF next = "return"
             THEN Finish(t, "return", MODE_CAMERAS, <<>>, _needs_album_init)
             ELSE IF next = "fetch"
             THEN /\ pc' = [pc EXCEPT ![t] = "fetch"]
                  /\ cyc' = [cyc EXCEPT ![t] =
                         [cameras |-> options.cameras, i |-> 1, frames |-> <<>>]]
                  /\ UNCHANGED result
             ELSE /\ pc' = [pc EXCEPT ![t] = next]
                  /\ UNCHANGED <<cyc, result>>
    /\ UNCHANGED <<_needs_album_init, options, fresh, calls, coordinators>>

\* lines 75-80 after get_app_info is answered
get_app_info_done(t, o) ==
    /\ pc[t] = "get_app_info"
    /\ Answered(t, "get_app_info", _get_json(o))
    /\ IF _get_json(o) = "ok"
       THEN /\ _needs_album_init' = TRUE
            /\ Finish(t, "return", MODE_BUILTIN, <<>>, TRUE)
       ELSE /\ Finish(t, IF _get_json(o) = "SmallTVApiError" THEN "UpdateFailed"
                         ELSE _get_json(o), "none", <<>>, _needs_album_init)
            /\ UNCHANGED _needs_album_init
    /\ UNCHANGED <<_firmware_version, options, hist, fresh, away, calls, coordinators>>

frames_after_fetch_Abort(frames, entity_id, f) ==
    IF f = "error" THEN <<>>
    ELSE Append(frames, [label |-> Label(entity_id), decodable |-> (f = "image")])

\* lines 90-95: the frame list after one camera's async_get_image is answered
frames_after_fetch(frames, entity_id, f) ==
    IF f = "error" THEN frames
    ELSE Append(frames, [label |-> Label(entity_id), decodable |-> (f = "image")])

no_frames_Unchecked(frames) == FALSE

\* line 97: if not frames
no_frames(frames) == frames = <<>>

\* lines 89-107: one camera's async_get_image is answered; after the last
\* one, return without frames or hand the frames to the executor
fetch_done(t, f) ==
    /\ pc[t] = "fetch"
    /\ Answered(t, "fetch", f)
    /\ LET c == cyc[t]
           frames == frames_after_fetch(c.frames, c.cameras[c.i], f)
       IN IF c.i < Len(c.cameras)
          THEN /\ cyc' = [cyc EXCEPT ![t] = [c EXCEPT !.i = c.i + 1, !.frames = frames]]
               /\ UNCHANGED <<pc, result>>
          ELSE IF no_frames(frames)
          THEN Finish(t, "return", MODE_CAMERAS, <<>>, _needs_album_init)
          ELSE /\ pc' = [pc EXCEPT ![t] = "create_camera_gif"]
               /\ cyc' = [cyc EXCEPT ![t] = [c EXCEPT !.i = c.i + 1, !.frames = frames]]
               /\ UNCHANGED result
    /\ UNCHANGED <<_needs_album_init, _firmware_version, options,
                   hist, fresh, away, calls, coordinators>>

after_create_camera_gif_AlwaysReinit(r, needs) ==
    IF r # "gif" THEN "return" ELSE "set_theme"

after_create_camera_gif_Ignored(r, needs) ==
    IF needs THEN "set_theme" ELSE "upload_image"

\* lines 102-128 once the executor job is done: any Exception is caught and
\* the cycle returns without labels (line 110); otherwise the reinit check
\* (line 118) issues set_theme(3) or goes straight to the upload
after_create_camera_gif(r, needs) ==
    IF r # "gif" THEN "return"
    ELSE IF needs THEN "set_theme" ELSE "upload_image"

\* lines 102-128: the executor job is done, with the animation or with an
\* exception (a decode error of create_camera_gif, or fault x)
create_camera_gif_done(t, x) ==
    /\ pc[t] = "create_camera_gif"
    /\ LET r == IF x = "none" THEN create_camera_gif(cyc[t].frames) ELSE x
           next == after_create_camera_gif(r, _needs_album_init)
       IN /\ Answered(t, "create_camera_gif", r)
          /\ IF next = "return"
             THEN Finish(t, "return", MODE_CAMERAS, <<>>, _needs_album_init)
             ELSE /\ pc' = [pc EXCEPT ![t] = next]
                  /\ UNCHANGED <<cyc, result>>
          /\ hist' = IF next = "set_theme" THEN HistAtTheme(hist) ELSE hist
    /\ UNCHANGED <<_needs_album_init, _firmware_version, options,
                   fresh, away, calls, coordinators>>

after_set_theme_Uncaught(r) == IF r = "ok" THEN "clear_images" ELSE "raise"

\* where the try block of lines 119-124 goes once set_theme(3) is answered:
\* on to clear_images, or (SmallTVApiError caught) past it to the upload;
\* any other exception leaves _async_update_data
after_set_theme(r) ==
    IF r = "ok" THEN "clear_images"
    ELSE IF r = "SmallTVApiError" THEN "upload_image"
    ELSE "raise"

\* ... and once clear_images is answered
after_clear_images(r) ==
    IF r = "ok" THEN "upload_image"
    ELSE IF r = "SmallTVApiError" THEN "upload_image"
    ELSE "raise"

after_upload_image_DisplayAnyway(r) ==
    IF r = "ok" THEN "set_gif"
    ELSE IF r = "SmallTVApiError" THEN "set_gif"
    ELSE "raise"

after_upload_image_Uncaught(r) == IF r = "ok" THEN "set_gif" ELSE "raise"

\* the file name the cycle uploads under (line 128) and the path it asks the
\* device to display (line 129), "/image//cameras.gif" split at "/"
upload_filename == "cameras.gif"
set_gif_path == <<"image", "", "cameras.gif">>

\* where the try block of lines 127-133 goes once upload_image is answered
after_upload_image(r) ==
    IF r = "ok" THEN "set_gif"
    ELSE IF r = "SmallTVApiError" THEN "return"
    ELSE "raise"

\* ... and once set_gif is answered
after_set_gif(r) ==
    IF r = "ok" THEN "return"
    ELSE IF r = "SmallTVApiError" THEN "return"
    ELSE "raise"

flag_after_set_gif_Always(old, r) == FALSE

flag_after_set_gif_Never(old, r) == old

\* the flag after set_gif is answered (line 130 runs only past both awaits)
flag_after_set_gif(old, r) == IF r = "ok" THEN FALSE ELSE old

\* continue at the next await, return the labels (line 135) or let the
\* exception escape
Continue(t, next, needs) ==
    IF next = "return"
    THEN Finish(t, "return", MODE_CAMERAS, Labels(cyc[t].frames), needs)
    ELSE IF next = "raise"
    THEN Finish(t, "TimeoutError", "none", <<>>, needs)
    ELSE /\ pc' = [pc EXCEPT ![t] = next]
         /\ UNCHANGED <<cyc, result>>

set_theme_done(t, o) ==
    /\ pc[t] = "set_theme"
    /\ Answered(t, "set_theme", _set(o))
    /\ Continue(t, after_set_theme(_set(o)), _needs_album_init)
    /\ UNCHANGED <<_needs_album_init, _firmware_version, options,
                   hist, fresh, away, calls, coordinators>>

clear_images_done(t, o) ==
    /\ pc[t] = "clear_images"
    /\ Answered(t, "clear_images", _set(o))
    /\ Continue(t, after_clear_images(_set(o)), _needs_album_init)
    /\ UNCHANGED <<_needs_album_init, _firmware_version, options,
                   hist, fresh, away, calls, coordinators>>

upload_image_done(t, o) ==
    /\ pc[t] = "upload_image"
    /\ Answered(t, "upload_image", upload_image(o))
    /\ Continue(t, after_upload_image(upload_image(o)), _needs_album_init)
    /\ UNCHANGED <<_needs_album_init, _firmware_version, options,
                   hist, fresh, away, calls, coordinators>>

set_gif_done(t, o) ==
    /\ pc[t] = "set_gif"
    /\ Answered(t, "set_gif", _set(o))
    /\ _needs_album_init' = flag_after_set_gif(_needs_album_init, _set(o))
    /\ hist' = IF _needs_album_init /\ ~_needs_album_init' THEN HistAtClear(hist) ELSE hist
    /\ Continue(t, after_set_gif(_set(o)), _needs_album_init')
    /\ UNCHANGED <<_firmware_version, options, fresh, away, calls, coordinators>>

\* async_refresh (and with it async_force_refresh, async_press,
\* async_select_option) returns to the event loop
refresh_returns(t) ==
    /\ pc[t] = "done"
    /\ pc' = [pc EXCEPT ![t] = "idle"]
    /\ log' = [log EXCEPT ![t] = <<>>]
    /\ hist' = [hist EXCEPT ![t] = NoHist]
    /\ result' = [result EXCEPT ![t] = NoResult]
    /\ UNCHANGED <<_needs_album_init, _firmware_version, options,
                   cyc, fresh, away, calls, coordinators>>

(* ------------------- config_flow.py / __init__.py ---------------------- *)

\* _async_update_listener reloads the entry: async_setup_entry constructs a
\* new coordinator; the coroutines of the old one no longer reach this state
async_reload ==
    /\ _needs_album_init' = CoordinatorInit.needs_album_init
    /\ _firmware_version' = CoordinatorInit.firmware_version
    /\ pc' = [t \in Tasks |-> "idle"]
    /\ cyc' = [t \in Tasks |-> NoCyc]
    /\ log' = [t \in Tasks |-> <<>>]
    /\ hist' = [t \in Tasks |-> NoHist]
    /\ result' = [t \in Tasks |-> NoResult]
    /\ fresh' = TRUE
    /\ UNCHANGED <<calls, coordinators>>

\* the update listener runs after async_select_option changed the mode, or
\* after the options flow saved an option the model does not hold
listener_reload ==
    /\ async_reload
    /\ UNCHANGED <<options, away>>

\* SmallTVUltraOptionsFlow.async_step_init saves a camera list and a mode;
\* the update listener reloads the entry
options_flow_save(cameras, mode) ==
    /\ options' = [mode |-> mode, cameras |-> cameras]
    /\ away' = (away \/ mode = MODE_BUILTIN)
    /\ async_reload

(* --------------------------- specification ---------------------------- *)

Firmwares == {"Ultra-V9.0.45"}

\* a finished cycle returns to the event loop before anything else runs
Running == \A u \in Tasks : pc[u] # "done"

Next ==
    \/ /\ Running
       /\ \/ \E t \in Tasks : scheduled_refresh(t)
          \/ \E t \in Tasks : async_press(t)
          \/ \E t \in Tasks, option \in Modes : async_select_option(t, option)
          \/ \E t \in Tasks, o \in GetOutcomes : select_theme_done(t, o)
          \/ \E t \in Tasks, o \in GetOutcomes, v \in Firmwares : get_info_done(t, o, v)
          \/ \E t \in Tasks, o \in GetOutcomes : get_app_info_done(t, o)
          \/ \E t \in Tasks, f \in FetchOutcomes : fetch_done(t, f)
          \/ \E t \in Tasks, x \in ComposeFaults : create_camera_gif_done(t, x)
          \/ \E t \in Tasks, o \in GetOutcomes : set_theme_done(t, o)
          \/ \E t \in Tasks, o \in GetOutcomes : clear_images_done(t, o)
          \/ \E t \in Tasks, o \in PostOutcomes : upload_image_done(t, o)
          \/ \E t \in Tasks, o \in GetOutcomes : set_gif_done(t, o)
          \/ \E cameras \in CameraLists, mode \in Modes : options_flow_save(cameras, mode)
          \/ listener_reload
    \/ \E t \in Tasks : refresh_returns(t)

Spec == Init /\ [][Next]_vars

(* ------------------------------ scheduling ---------------------------- *)

\* the await coroutine t is suspended at is answered: every request of the
\* client ends (with an answer or at its timeout), and so do the camera
\* fetch and the executor job
Answer(t) ==
    /\ Running
    /\ \/ \E o \in GetOutcomes, v \in Firmwares : get_info_done(t, o, v)
       \/ \E o \in GetOutcomes : get_app_info_done(t, o)
       \/ \E f \in FetchOutcomes : fetch_done(t, f)
       \/ \E x \in ComposeFaults : create_camera_gif_done(t, x)
       \/ \E o \in GetOutcomes : set_theme_done(t, o)
       \/ \E o \in GetOutcomes : clear_images_done(t, o)
       \/ \E o \in PostOutcomes : upload_image_done(t, o)
       \/ \E o \in GetOutcomes : set_gif_done(t, o)

\* the update interval elapses
Timer == Running /\ \E t \in Tasks : scheduled_refresh(t)

\* the timer, the button, the options flow (which sets the cameras and the
\* mode) and the cycles they start
NextLive ==
    \/ Timer
    \/ Running /\ \E t \in Tasks : async_press(t)
    \/ \E t \in Tasks : Answer(t)
    \/ Running /\ \E cameras \in CameraLists, mode \in Modes : options_flow_save(cameras, mode)
    \/ \E t \in Tasks : refresh_returns(t)

\* the event loop runs every coroutine that can run, every await is answered,
\* and the coordinator's timer keeps firing
SpecLive ==
    /\ Init /\ [][NextLive]_vars
    /\ \A t \in Tasks : WF_vars(Answer(t)) /\ WF_vars(refresh_returns(t))
    /\ WF_vars(Timer)

(* --------------------- api.py exercised on its own --------------------- *)

\* the methods built on _set, those built on _get_json, and upload_image
SettingsMethods == {"set_theme", "set_image", "set_brightness",
                    "set_album_options", "set_gif", "clear_images"}
StatusMethods == {"get_info", "get_app_info", "get_album_info", "get_storage"}
Methods == SettingsMethods \cup StatusMethods \cup {"upload_image"}

\* what the session can do with the request of a method: POST for the upload,
\* GET for the others
SessionOutcomes(m) == IF m = "upload_image" THEN PostOutcomes ELSE GetOutcomes

\* the client method m, the session doing o: "ok" or the exception raised
SmallTVApi(m, o) ==
    IF m = "upload_image" THEN upload_image(o)
    ELSE IF m \in SettingsMethods THEN _set(o)
    ELSE _get_json(o)

\* one method of the client is called and answered
api_call(m, o) ==
    /\ Len(calls) < MaxCalls
    /\ calls' = Append(calls, [method |-> m, outcome |-> o, result |-> SmallTVApi(m, o)])
    /\ UNCHANGED <<_needs_album_init, _firmware_version, options,
                   pc, cyc, log, hist, result, fresh, away, coordinators>>

NextApi == \E m \in Methods : \E o \in SessionOutcomes(m) : api_call(m, o)

SpecApi == Init /\ [][NextApi]_vars

(* ---------------- image_processor.py exercised on its own -------------- *)

_DISPLAY_SIZE == 240
\* the characters of a label that are rendered: label[:22]
LabelLimit == 22

Min(a, b) == IF a < b THEN a ELSE b

crop_box_Uncentred(w, h) ==
    LET side == Min(w, h)
        left == w - side
        top == h - side
    IN <<left, top, left + side, top + side>>

\* _process_frame lines 42-46: the box handed to img.crop
crop_box(w, h) ==
    LET side == Min(w, h)
        left == (w - side) \div 2
        top == (h - side) \div 2
    IN <<left, top, left + side, top + side>>

label_text_Whole(label) == label

\* _process_frame line 59: text = label[:22]
label_text(label) == SubSeq(label, 1, Min(Len(label), LabelLimit))

\* _process_frame on decodable bytes: the crop of the source picture, resized
\* to the display, with the text in the label bar
_process_frame(frame) ==
    [size |-> <<_DISPLAY_SIZE, _DISPLAY_SIZE>>,
     source |-> <<frame.pix, frame.w, frame.h>>,
     box |-> crop_box(frame.w, frame.h),
     text |-> label_text(frame.label)]

frame_duration_ms_Seconds(frame_duration_s) == frame_duration_s

\* create_camera_gif line 122: duration=frame_duration_s * 1000
frame_duration_ms(frame_duration_s) == frame_duration_s * 1000

\* quantized[0].save(format="GIF", save_all=True, append_images=...): the GIF
\* writer of the installed Pillow writes every frame, or folds a frame equal
\* to the one before it into that one and adds its duration to it
GifWriters == {"every_frame", "fold_identical"}

Written(acc, image, ms, writer) ==
    IF writer = "fold_identical" /\ acc # <<>> /\ acc[Len(acc)].image = image
    THEN [acc EXCEPT ![Len(acc)].duration = @ + ms]
    ELSE Append(acc, [image |-> image, duration |-> ms])

RECURSIVE GifSave(_, _, _, _)
GifSave(acc, images, ms, writer) ==
    IF images = <<>> THEN acc
    ELSE GifSave(Written(acc, Head(images), ms, writer), Tail(images), ms, writer)

\* create_camera_gif in full: the exception it raises, or the animation
create_camera_gif_out(frames, frame_duration_s, writer) ==
    IF create_camera_gif(frames) = "raise"
    THEN [ok |-> FALSE,
          error |-> IF frames = <<>> THEN "ValueError" ELSE "UnidentifiedImageError"]
    ELSE [ok |-> TRUE,
          frames |-> GifSave(<<>>, [k \in 1..Len(frames) |-> _process_frame(frames[k])],
                             frame_duration_ms(frame_duration_s), writer),
          loop |-> 0]

\* labels as character sequences of n characters, the last one c
Lab(n, c) == [i \in 1..n |-> IF i = n THEN c ELSE "x"]
LabelLens == {0, 1, LabelLimit - 1, LabelLimit, LabelLimit + 1, LabelLimit + 2}
HarnessLabels == {Lab(n, c) : n \in LabelLens, c \in {"a", "b"}}
Pictures == {"p", "q"}

\* the frames _process_frame is tried on
HarnessFrames ==
    [pix : {"p"}, w : 1..MaxSide, h : 1..MaxSide,
     label : HarnessLabels, decodable : BOOLEAN]

\* the frame lists create_camera_gif is tried on: labels that differ within
\* and beyond the rendered characters
ComposeFrames ==
    [pix : Pictures, w : {MaxSide}, h : {MaxSide - 1},
     label : {Lab(1, "a"), Lab(LabelLimit + 1, "a"), Lab(LabelLimit + 1, "b")},
     decodable : BOOLEAN]
ComposeInputs == UNION { [1..n -> ComposeFrames] : n \in 0..MaxFrames }

\* _process_frame is called on one frame
process_frame_call(frame) ==
    /\ calls = <<>>
    /\ calls' = << [fn |-> "_process_frame", frame |-> frame,
                    out |-> IF frame.decodable
                            THEN [ok |-> TRUE, image |-> _process_frame(frame)]
                            ELSE [ok |-> FALSE, error |-> "UnidentifiedImageError"]] >>
    /\ UNCHANGED <<_needs_album_init, _firmware_version, options,
                   pc, cyc, log, hist, result, fresh, away, coordinators>>

\* create_camera_gif is called as the cycle calls it, and the cycle takes its
\* labels from the frames it passed (coordinator.py line 135)
create_camera_gif_call(frames, frame_duration_s, writer) ==
    /\ calls = <<>>
    /\ calls' = << [fn |-> "create_camera_gif", frames |-> frames,
                    frame_duration_s |-> frame_duration_s,
                    out |-> create_camera_gif_out(frames, frame_duration_s, writer),
                    labels |-> Labels(frames)] >>
    /\ UNCHANGED <<_needs_album_init, _firmware_version, options,
                   pc, cyc, log, hist, result, fresh, away, coordinators>>

NextImage ==
    \/ \E frame \in HarnessFrames : process_frame_call(frame)
    \/ \E frames \in ComposeInputs, frame_duration_s \in 1..MaxSeconds, writer \in GifWriters :
            create_camera_gif_call(frames, frame_duration_s, writer)

SpecImage == Init /\ [][NextImage]_vars

(* ------------------------- reading the history ------------------------ *)

Done(t) == pc[t] = "done"
\* the cycle of coroutine t got answer r to request (or await) cmd
HasLog(t, cmd, r) == \E k \in 1..Len(log[t]) : log[t][k] = <<cmd, r>>
\* the cycle of coroutine t has sent request cmd (answered or still in flight)
Issued(t, cmd) == pc[t] = cmd \/ \E k \in 1..Len(log[t]) : log[t][k][1] = cmd
\* the cycle reached the device-update stage (line 118)
ReachedUpdate(t) == Issued(t, "set_theme") \/ Issued(t, "upload_image")
\* a request of the cycle failed with SmallTVApiError (non-200 or transport error)
Failed(t, cmd) == HasLog(t, cmd, "SmallTVApiError")
\* this step answers request cmd of coroutine t with r
Answers(t, cmd, r) == pc[t] = cmd /\ log'[t] = Append(log[t], <<cmd, r>>)
\* the awaits of _async_update_data, and their place in its text
CycleStages == {"get_info", "get_app_info", "fetch", "create_camera_gif",
                "set_theme", "clear_images", "upload_image", "set_gif"}
InCycle(t) == pc[t] \in CycleStages
Rank(cmd) ==
    CASE cmd = "get_info" -> 1
      [] cmd = "get_app_info" -> 2
      [] cmd = "fetch" -> 3
      [] cmd = "create_camera_gif" -> 4
      [] cmd = "set_theme" -> 5
      [] cmd = "clear_images" -> 6
      [] cmd = "upload_image" -> 7
      [] cmd = "set_gif" -> 8
\* b may follow a in the text: later, or the next turn of the fetch loop
Follows(a, b) == Rank(a) < Rank(b) \/ (a = "fetch" /\ b = "fetch")
\* the file a path points at
BaseName(path) == path[Len(path)]
\* the requests that change the device: mode switch, clear, upload, display
Commands == {"set_theme", "clear_images", "upload_image", "set_gif"}
NoCommand(t) == \A cmd \in Commands : ~Issued(t, cmd)
\* the camera fetches answered in the cycle of coroutine t, in order
IsFetch(e) == e[1] = "fetch"
FetchLog(t) == SelectSeq(log[t], IsFetch)
\* the cycle read camera mode after a successful probe
CameraCycle(t) == HasLog(t, "get_info", "ok") /\ ~Issued(t, "get_app_info")
\* the executor job of the cycle raised
ComposeFailed(t) ==
    HasLog(t, "create_camera_gif", "raise") \/ HasLog(t, "create_camera_gif", "Exception")
\* the frames of the cameras whose fetch succeeded, in configured order
FetchedFrames(cameras, answers) ==
    LET ks == SelectSeq([k \in 1..Len(answers) |-> k],
                        LAMBDA k : answers[k][2] # "error")
    IN [j \in 1..Len(ks) |-> [label |-> Label(cameras[ks[j]]),
                              decodable |-> (answers[ks[j]][2] = "image")]]

(* ------------------------------- claims ------------------------------- *)

\* C1: needs_reinit goes from true to false only in the step in which the
\* display command of a camera-mode cycle succeeds, the upload of that same
\* cycle having succeeded; and the step that ends a cycle whose upload failed,
\* or whose display command failed, leaves needs_reinit as it was (true stays
\* true), whatever the mode-switch and clear commands did.
C1_ClearedOnlyByUploadAndDisplay ==
    [][ /\ (_needs_album_init /\ ~_needs_album_init')
            => \E t \in Tasks : /\ HasLog(t, "upload_image", "ok")
                                /\ Answers(t, "set_gif", "ok")
                                /\ result'[t].mode = MODE_CAMERAS
        /\ \A t \in Tasks :
            ( \/ \E r \in {"SmallTVApiError", "TimeoutError"} : Answers(t, "upload_image", r)
              \/ \E r \in {"SmallTVApiError", "TimeoutError"} : Answers(t, "set_gif", r) )
            => /\ pc'[t] = "done"
               /\ _needs_album_init' = _needs_album_init
               /\ result'[t].endNeeds = _needs_album_init
      ]_vars

\* a cycle that ran alone from needs_reinit true, switched mode and cleared
\* with success, uploaded, failed to display, and ended with the flag true
C1_Witness ==
    \E t \in Tasks :
        /\ Done(t) /\ hist[t].alone /\ hist[t].startNeeds
        /\ HasLog(t, "set_theme", "ok") /\ HasLog(t, "clear_images", "ok")
        /\ HasLog(t, "upload_image", "ok") /\ Failed(t, "set_gif")
        /\ result[t].endNeeds

\* C2: a cycle in which the mode-switch or the clear command failed ends with
\* needs_reinit true, whatever upload and display did.
C2_ReinitFailureKeepsFlag ==
    \A t \in Tasks :
        (Done(t) /\ (Failed(t, "set_theme") \/ Failed(t, "clear_images")))
            => result[t].endNeeds

\* C3: after construction and before any cycle has started, needs_reinit is true.
C3_FlagSetAtConstruction ==
    fresh => (_needs_album_init /\ \A t \in Tasks : pc[t] \in {"idle", "select_theme"})

\* a coordinator constructed by a reload for a camera list the options flow saved
C3_Witness ==
    fresh /\ _needs_album_init /\ options.cameras # <<>>

\* C4: a camera-mode cycle that ran alone and whose upload and display both
\* succeeded returns with needs_reinit false, whatever the flag was at its start.
C4_FullSuccessClearsFlag ==
    \A t \in Tasks :
        (Done(t) /\ hist[t].alone
         /\ HasLog(t, "upload_image", "ok") /\ HasLog(t, "set_gif", "ok"))
            => (result[t].kind = "return" /\ ~result[t].endNeeds /\ ~_needs_album_init)

\* such a cycle, started with the flag true
C4_Witness ==
    \E t \in Tasks :
        /\ Done(t) /\ hist[t].alone /\ hist[t].startNeeds
        /\ HasLog(t, "upload_image", "ok") /\ HasLog(t, "set_gif", "ok")
        /\ ~result[t].endNeeds

\* C5: force_refresh sets needs_reinit before the cycle it triggers starts, and
\* that cycle reads needs_reinit = true at the reinit check, so it sends the
\* mode-switch command.
C5_ForcedCycleReinitialises ==
    \A t \in Tasks :
        hist[t].forced
            => /\ hist[t].startNeeds
               /\ ReachedUpdate(t) => Issued(t, "set_theme")

\* C6: whenever a call of force_refresh has completed, needs_reinit is true.
C6_FlagSetWhenForceRefreshReturns ==
    \A t \in Tasks : (Done(t) /\ hist[t].forced) => result[t].endNeeds

\* C6 as amended: whenever a call of force_refresh has completed, needs_reinit
\* is true unless a cycle cleared it after the call had set it.
C6_FlagSetUnlessClearedSince ==
    \A t \in Tasks :
        (Done(t) /\ hist[t].forced /\ ~hist[t].cleared) => result[t].endNeeds

\* a force_refresh called with the flag false has completed with the flag true
C6_Witness ==
    \E t \in Tasks :
        /\ Done(t) /\ hist[t].forced /\ ~hist[t].prior /\ ~hist[t].cleared
        /\ result[t].endNeeds

\* C7: the first camera-mode cycle after the mode has been to builtin and back
\* starts with needs_reinit true and sends the mode-switch command before it
\* uploads; and a cycle that returns in builtin mode ends with needs_reinit true.
C7_ReinitAfterModeReturn ==
    \A t \in Tasks :
        /\ hist[t].firstBack
            => /\ hist[t].startNeeds
               /\ ReachedUpdate(t) => Issued(t, "set_theme")
        /\ (Done(t) /\ result[t].kind = "return" /\ result[t].mode = MODE_BUILTIN)
            => result[t].endNeeds

\* C8: a cycle that reaches the device-update stage with needs_reinit true sends
\* the mode-switch command and the clear command before the upload, whether or
\* not either fails.
C8_ModeSwitchAndClearBeforeUpload ==
    \A t \in Tasks :
        (Issued(t, "set_theme") /\ Issued(t, "upload_image"))
            => Issued(t, "clear_images")

\* C9: a failed mode-switch or clear command (non-200 or transport error) does
\* not make the cycle raise: the next request of the cycle is the upload, and
\* if the cycle raises at all it is on the answer to the upload or the display
\* command.
C9_ReinitFailureNotFatal ==
    \A t \in Tasks :
        (Failed(t, "set_theme") \/ Failed(t, "clear_images"))
            => /\ Issued(t, "upload_image")
               /\ (Done(t) /\ result[t].kind # "return")
                    => log[t][Len(log[t])][1] \in {"upload_image", "set_gif"}

\* a cycle whose mode switch failed, that uploaded and returned normally
C9_Witness ==
    \E t \in Tasks :
        /\ Done(t) /\ Failed(t, "set_theme")
        /\ HasLog(t, "upload_image", "ok") /\ result[t].kind = "return"

\* C10: a timed-out device request is handled like a failure of its tier: a
\* cycle whose status probe timed out fails upward; a cycle whose mode-switch,
\* clear, upload or display request timed out returns normally (no exception
\* escapes it), and it does not clear needs_reinit.
C10_TimeoutIsTierFailure ==
    \A t \in Tasks :
        Done(t) =>
            /\ HasLog(t, "get_info", "TimeoutError") => result[t].kind # "return"
            /\ (\E cmd \in {"set_theme", "clear_images", "upload_image", "set_gif"} :
                    HasLog(t, cmd, "TimeoutError"))
                => /\ result[t].kind = "return"
                   /\ (hist[t].alone /\ hist[t].startNeeds) => result[t].endNeeds

\* C11 (as stated): a camera-mode cycle with no camera configured returns its
\* no-op result without having sent any request to the device, the status
\* probe included.
C11_NoRequestWithoutCameras ==
    \A t \in Tasks :
        (Done(t) /\ result[t].kind = "return" /\ result[t].mode = MODE_CAMERAS
         /\ options.cameras = <<>>)
            => log[t] = <<>>

\* C11 as amended: when the status probe of a cycle is answered and the cycle
\* reads camera mode with no camera configured, it returns at once with an
\* empty label list, the status probe being the only request it has sent.
C11_OnlyProbeWithoutCameras ==
    [][ \A t \in Tasks :
            (Answers(t, "get_info", "ok")
             /\ options.mode = MODE_CAMERAS /\ options.cameras = <<>>)
                => /\ pc'[t] = "done"
                   /\ result'[t].kind = "return"
                   /\ result'[t].mode = MODE_CAMERAS
                   /\ result'[t].cameras = <<>>
                   /\ log'[t] = << <<"get_info", "ok">> >>
      ]_vars

\* a camera-mode cycle without cameras has returned, the probe answered
C11_Witness ==
    \E t \in Tasks :
        /\ Done(t) /\ options.cameras = <<>>
        /\ result[t].kind = "return" /\ result[t].mode = MODE_CAMERAS
        /\ log[t] = << <<"get_info", "ok">> >>

\* C12: a camera-mode cycle whose frame list is empty (no camera configured,
\* or every configured camera's fetch failed) returns an empty label list,
\* sends no mode-switch, clear, upload or display command, and ends with
\* needs_reinit as it was at its start.
C12_EmptyFrameListIsNoOp ==
    \A t \in Tasks :
        (Done(t) /\ CameraCycle(t)
         /\ Len(FetchLog(t)) = Len(options.cameras)
         /\ \A k \in 1..Len(FetchLog(t)) : FetchLog(t)[k][2] = "error")
            => /\ result[t].kind = "return"
               /\ result[t].mode = MODE_CAMERAS
               /\ result[t].cameras = <<>>
               /\ NoCommand(t)
               /\ hist[t].alone => (result[t].endNeeds = hist[t].startNeeds)

\* every fetch of a cycle over several cameras failed; the flag was false
C12_Witness ==
    \E t \in Tasks :
        /\ Done(t) /\ CameraCycle(t) /\ hist[t].alone
        /\ Len(FetchLog(t)) > 1 /\ Len(FetchLog(t)) = Len(options.cameras)
        /\ \A k \in 1..Len(FetchLog(t)) : FetchLog(t)[k][2] = "error"
        /\ ~hist[t].startNeeds /\ ~result[t].endNeeds

\* C13: a cycle whose composition raised, for whatever reason, does not raise:
\* it returns an empty label list, sends no mode-switch, clear, upload or
\* display command, and ends with needs_reinit as it was at its start.
C13_ComposeFailureIsNoOp ==
    \A t \in Tasks :
        ComposeFailed(t)
            => /\ Done(t)
               /\ result[t].kind = "return"
               /\ result[t].cameras = <<>>
               /\ NoCommand(t)
               /\ hist[t].alone => (result[t].endNeeds = hist[t].startNeeds)

\* the composition of decodable frames raised; the flag was and stays true
C13_Witness ==
    \E t \in Tasks :
        /\ Done(t) /\ HasLog(t, "create_camera_gif", "Exception")
        /\ ~HasLog(t, "fetch", "garbage")
        /\ hist[t].alone /\ hist[t].startNeeds /\ result[t].endNeeds

\* C14: a cycle that fetched an undecodable frame next to a decodable one, and
\* whose composition met no other fault, composes an animation from the
\* decodable frames; when it has uploaded and displayed it, the labels it
\* returns are those of the decodable frames.
C14_UndecodableFrameSkipped ==
    \A t \in Tasks :
        (Done(t) /\ HasLog(t, "fetch", "garbage") /\ HasLog(t, "fetch", "image")
         /\ ~HasLog(t, "create_camera_gif", "Exception"))
            => /\ HasLog(t, "create_camera_gif", "gif")
               /\ (HasLog(t, "upload_image", "ok") /\ HasLog(t, "set_gif", "ok"))
                    => Len(result[t].cameras) = 1

\* C15: the frame list handed to the compositor is exactly the list of the
\* frames of the cameras whose fetch succeeded, in configured order; and once
\* every configured camera has been asked and at least one fetch succeeded,
\* the cycle has gone on to the compositor.
C15_FetchFailuresIsolated ==
    \A t \in Tasks :
        /\ pc[t] = "create_camera_gif"
            => /\ Len(FetchLog(t)) = Len(options.cameras)
               /\ cyc[t].frames = FetchedFrames(options.cameras, FetchLog(t))
        /\ (CameraCycle(t) /\ pc[t] # "get_info"
            /\ Len(FetchLog(t)) = Len(options.cameras)
            /\ \E k \in 1..Len(FetchLog(t)) : FetchLog(t)[k][2] # "error")
            => Issued(t, "create_camera_gif")

\* the first camera's fetch failed, the second one's frame is at the compositor
C15_Witness ==
    \E t \in Tasks :
        /\ pc[t] = "create_camera_gif"
        /\ FetchLog(t) = << <<"fetch", "error">>, <<"fetch", "image">> >>
        /\ Labels(cyc[t].frames) = << Label(options.cameras[2]) >>

\* C16: a cycle returns a non-empty label list only if its upload and its
\* display command both succeeded.
C16_LabelsAreDisplayed ==
    \A t \in Tasks :
        (Done(t) /\ result[t].cameras # <<>>)
            => (HasLog(t, "upload_image", "ok") /\ HasLog(t, "set_gif", "ok"))

\* C17: the step in which the status probe fails ends the cycle: it raises
\* (update failed for a non-200 answer or a transport error), the probe is the
\* only request the cycle has sent, and needs_reinit and last_known_firmware
\* are as they were.
C17_ProbeFailureIsFatal ==
    [][ \A t \in Tasks : \A r \in {"SmallTVApiError", "TimeoutError"} :
            Answers(t, "get_info", r)
                => /\ pc'[t] = "done"
                   /\ result'[t].kind # "return"
                   /\ (r = "SmallTVApiError") => (result'[t].kind = "UpdateFailed")
                   /\ log'[t] = << <<"get_info", r>> >>
                   /\ _needs_album_init' = _needs_album_init
                   /\ _firmware_version' = _firmware_version
      ]_vars

\* the probe failed after an earlier cycle had learned the firmware version
C17_Witness ==
    \E t \in Tasks :
        /\ Done(t) /\ Failed(t, "get_info")
        /\ result[t].kind = "UpdateFailed"
        /\ _firmware_version # CoordinatorInit.firmware_version

\* C18: a cycle whose upload or display command failed (non-200 or transport
\* error) returns normally, and needs_reinit is at its end what it was at its
\* start.
C18_UploadFailureKeepsState ==
    \A t \in Tasks :
        (Done(t) /\ (Failed(t, "upload_image") \/ Failed(t, "set_gif")))
            => /\ result[t].kind = "return"
               /\ hist[t].alone => (result[t].endNeeds = hist[t].startNeeds)

\* the display command failed in a cycle started with the flag false
C18_Witness ==
    \E t \in Tasks :
        /\ Done(t) /\ HasLog(t, "upload_image", "ok") /\ Failed(t, "set_gif")
        /\ hist[t].alone /\ ~hist[t].startNeeds /\ ~result[t].endNeeds
        /\ result[t].kind = "return"

\* C19: upload_image reports success exactly when the answer is 200 or the
\* session raises the duplicate Content-Length response error, and raises
\* SmallTVApiError in every other case.
C19_UploadOutcomes ==
    \A k \in 1..Len(calls) :
        calls[k].method = "upload_image"
            => calls[k].result =
                 (IF calls[k].outcome \in {"200", "DuplicateContentLength"}
                  THEN "ok" ELSE "SmallTVApiError")

\* C20: every settings command succeeds exactly when the device answers 200,
\* and raises SmallTVApiError for any other status and any transport error.
C20_SettingsOutcomes ==
    \A k \in 1..Len(calls) :
        calls[k].method \in SettingsMethods
            => calls[k].result =
                 (IF calls[k].outcome = "200" THEN "ok" ELSE "SmallTVApiError")

\* C21: at most one update cycle is in flight at any time.
C21_OneCycleInFlight ==
    Cardinality({t \in Tasks : InCycle(t)}) <= 1

\* C22: within a cycle the awaits are answered in the order of the text:
\* status probe, camera fetches (all of them), composition, mode switch,
\* clear, upload, display; a mode-switch, clear, upload or display command is
\* sent only after the composition has returned the animation, the clear only
\* after the mode switch succeeded, the display command only after the upload
\* of the same cycle succeeded, and it points at the file name of that upload.
C22_StepsInOrder ==
    \A t \in Tasks :
        /\ \A k \in 1..(Len(log[t]) - 1) : Follows(log[t][k][1], log[t][k+1][1])
        /\ (InCycle(t) /\ log[t] # <<>>) => Follows(log[t][Len(log[t])][1], pc[t])
        /\ (InCycle(t) /\ pc[t] # "get_info") => log[t][1] = <<"get_info", "ok">>
        /\ Issued(t, "create_camera_gif") => Len(FetchLog(t)) = Len(options.cameras)
        /\ (\E cmd \in Commands : Issued(t, cmd)) => HasLog(t, "create_camera_gif", "gif")
        /\ Issued(t, "clear_images") => HasLog(t, "set_theme", "ok")
        /\ Issued(t, "set_gif")
            => (HasLog(t, "upload_image", "ok") /\ BaseName(set_gif_path) = upload_filename)

\* a cycle over two cameras went through every step
C22_Witness ==
    \E t \in Tasks :
        /\ Done(t)
        /\ log[t] = << <<"get_info", "ok">>, <<"fetch", "image">>, <<"fetch", "image">>,
                       <<"create_camera_gif", "gif">>, <<"set_theme", "ok">>,
                       <<"clear_images", "ok">>, <<"upload_image", "ok">>,
                       <<"set_gif", "ok">> >>

\* C23: a cycle whose composition returns while needs_reinit is false goes
\* straight to the upload; the mode switch is sent only from the reinit check
\* with needs_reinit true and the clear only after the mode switch; so a cycle
\* that runs alone from needs_reinit false sends neither.
C23_NoReinitWhenFlagClear ==
    [][ \A t \in Tasks :
            /\ (Answers(t, "create_camera_gif", "gif") /\ ~_needs_album_init)
                => pc'[t] = "upload_image"
            /\ (pc'[t] = "set_theme" /\ pc[t] # "set_theme")
                => (pc[t] = "create_camera_gif" /\ _needs_album_init)
            /\ (pc'[t] = "clear_images" /\ pc[t] # "clear_images")
                => pc[t] = "set_theme"
            /\ (hist[t].alone /\ ~hist[t].startNeeds)
                => (~Issued(t, "set_theme") /\ ~Issued(t, "clear_images"))
      ]_vars

\* a timer cycle started with the flag false sent probe, upload and display only
C23_Witness ==
    \E t \in Tasks :
        /\ Done(t) /\ hist[t].alone /\ ~hist[t].startNeeds /\ ~hist[t].forced
        /\ log[t] = << <<"get_info", "ok">>, <<"fetch", "image">>,
                       <<"create_camera_gif", "gif">>,
                       <<"upload_image", "ok">>, <<"set_gif", "ok">> >>

\* C25: create_camera_gif raises on an empty frame list, and the cycle never
\* hands it one: whenever the executor job is running, its frame list is not
\* empty.
C25_NeverComposesEmpty ==
    /\ create_camera_gif(<<>>) = "raise"
    /\ \A s \in 1..MaxSeconds, writer \in GifWriters :
            create_camera_gif_out(<<>>, s, writer) = [ok |-> FALSE, error |-> "ValueError"]
    /\ \A t \in Tasks : pc[t] = "create_camera_gif" => cyc[t].frames # <<>>

\* the executor job runs on the one frame left after another fetch failed
C25_Witness ==
    \E t \in Tasks :
        /\ pc[t] = "create_camera_gif" /\ Len(cyc[t].frames) = 1
        /\ HasLog(t, "fetch", "error")

\* C29: the mode-info request is sent exactly by the cycles that read builtin
\* mode after their probe; such a cycle sends no fetch, composition,
\* mode-switch, clear, upload or display; if the request fails the cycle ends
\* with update failed and leaves needs_reinit as it is; if it succeeds the
\* cycle returns the builtin result.
C29_ModeInfoOnlyInBuiltin ==
    [][ \A t \in Tasks :
            /\ (pc'[t] = "get_app_info" /\ pc[t] # "get_app_info")
                => (Answers(t, "get_info", "ok") /\ options.mode = MODE_BUILTIN)
            /\ (Answers(t, "get_info", "ok") /\ options.mode = MODE_BUILTIN)
                => pc'[t] = "get_app_info"
            /\ Issued(t, "get_app_info")
                => (NoCommand(t) /\ FetchLog(t) = <<>> /\ ~Issued(t, "create_camera_gif"))
            /\ Answers(t, "get_app_info", "SmallTVApiError")
                => /\ pc'[t] = "done"
                   /\ result'[t].kind = "UpdateFailed"
                   /\ _needs_album_init' = _needs_album_init
            /\ Answers(t, "get_app_info", "ok")
                => /\ pc'[t] = "done"
                   /\ result'[t].kind = "return"
                   /\ result'[t].mode = MODE_BUILTIN
                   /\ log'[t] = << <<"get_info", "ok">>, <<"get_app_info", "ok">> >>
      ]_vars

\* the mode-info request of a builtin cycle failed while the flag was false
C29_Witness ==
    \E t \in Tasks :
        /\ Done(t) /\ Failed(t, "get_app_info")
        /\ result[t].kind = "UpdateFailed" /\ ~result[t].endNeeds

\* C30: async_select_option persists the selected mode and sends the theme
\* that goes with it (3 for cameras, 1 for builtin); whatever the answer, the
\* next thing it does is the forced refresh (needs_reinit set, probe sent),
\* and the persisted mode is untouched by the answer.
C30_SelectPersistsThenRefreshes ==
    [][ \A t \in Tasks :
            /\ (pc[t] = "idle" /\ pc'[t] = "select_theme")
                => /\ hist'[t].theme = (IF options'.mode = MODE_CAMERAS THEN 3 ELSE 1)
                   /\ options'.cameras = options.cameras
                   /\ _needs_album_init' = _needs_album_init
            /\ (pc[t] = "select_theme" /\ pc'[t] \notin {"select_theme", "idle"})
                => /\ pc'[t] = "get_info"
                   /\ hist'[t].forced
                   /\ _needs_album_init'
                   /\ options' = options
      ]_vars

\* builtin was selected, the theme request failed, and the forced refresh runs
C30_Witness ==
    \E t \in Tasks :
        /\ pc[t] = "get_info" /\ hist[t].forced
        /\ hist[t].theme = 1 /\ hist[t].themeResult = "SmallTVApiError"
        /\ options.mode = MODE_BUILTIN /\ _needs_album_init

(* ------------------- several devices side by side ---------------------- *)

store_ClassAttribute(cs, e, new) ==
    [x \in Entries |->
        IF x = e THEN new
        ELSE [cs[x] EXCEPT !._needs_album_init = new._needs_album_init,
                           !._firmware_version = new._firmware_version]]

\* an assignment to self._needs_album_init / self._firmware_version (and the
\* locals of the coroutine) of the coordinator of entry e: instance
\* attributes set in __init__, one coordinator per entry_id in hass.data
store(cs, e, new) == [cs EXCEPT ![e] = new]

\* how a cycle leaves _async_update_data
Ends == {"return", "UpdateFailed", "raise"}
\* the coordinator record once the cycle moves on to `next`
Goto(c, next) ==
    IF next \in Ends THEN [c EXCEPT !.pc = "idle", !.frames = <<>>, !.last = next]
    ELSE [c EXCEPT !.pc = next]

\* the coordinator record c of entry e after the await its cycle is suspended
\* at is answered: o by the session, v the firmware reported, f by the camera,
\* x by the executor; the entry has the one camera CameraEntities[e]
answered(c, e, o, v, f, x) ==
    CASE c.pc = "get_info" ->
            Goto([c EXCEPT !._firmware_version = IF _get_json(o) = "ok" THEN v ELSE @],
                 after_get_info(_get_json(o), c.mode, <<CameraEntities[e]>>))
      [] c.pc = "get_app_info" ->
            IF _get_json(o) = "ok"
            THEN Goto([c EXCEPT !._needs_album_init = TRUE], "return")
            ELSE Goto(c, IF _get_json(o) = "SmallTVApiError" THEN "UpdateFailed" ELSE "raise")
      [] c.pc = "fetch" ->
            LET frames == frames_after_fetch(<<>>, CameraEntities[e], f)
            IN IF no_frames(frames) THEN Goto(c, "return")
               ELSE Goto([c EXCEPT !.frames = frames], "create_camera_gif")
      [] c.pc = "create_camera_gif" ->
            Goto(c, after_create_camera_gif(
                        IF x = "none" THEN create_camera_gif(c.frames) ELSE x,
                        c._needs_album_init))
      [] c.pc = "set_theme" -> Goto(c, after_set_theme(_set(o)))
      [] c.pc = "clear_images" -> Goto(c, after_clear_images(_set(o)))
      [] c.pc = "upload_image" -> Goto(c, after_upload_image(upload_image(o)))
      [] c.pc = "set_gif" ->
            Goto([c EXCEPT !._needs_album_init = flag_after_set_gif(@, _set(o))],
                 after_set_gif(_set(o)))

\* the timer of entry e fires, or its button is pressed (forced)
entry_refresh(e, forced) ==
    /\ coordinators[e].pc = "idle"
    /\ coordinators' = store(coordinators, e,
            [coordinators[e] EXCEPT
                !._needs_album_init = IF forced THEN force_refresh(@) ELSE @,
                !.pc = "get_info"])
    /\ UNCHANGED <<_needs_album_init, _firmware_version, options,
                   pc, cyc, log, hist, result, fresh, away, calls>>

\* a display mode is selected on the device of entry e: the mode is
\* persisted, the theme request answered (and its failure swallowed), and
\* the refresh forced
entry_select_option(e, option) ==
    /\ coordinators[e].pc = "idle"
    /\ coordinators' = store(coordinators, e,
            [coordinators[e] EXCEPT
                !.mode = option,
                !._needs_album_init = force_refresh(@),
                !.pc = "get_info"])
    /\ UNCHANGED <<_needs_album_init, _firmware_version, options,
                   pc, cyc, log, hist, result, fresh, away, calls>>

\* an await of the cycle of entry e is answered
entry_answered(e, o, v, f, x) ==
    /\ coordinators[e].pc # "idle"
    /\ coordinators' = store(coordinators, e, answered(coordinators[e], e, o, v, f, x))
    /\ UNCHANGED <<_needs_album_init, _firmware_version, options,
                   pc, cyc, log, hist, result, fresh, away, calls>>

\* entry e is reloaded: async_setup_entry constructs a new coordinator for it
entry_reload(e) ==
    /\ coordinators[e].pc = "idle"
    /\ coordinators' = store(coordinators, e, EntryInit(coordinators[e].mode))
    /\ UNCHANGED <<_needs_album_init, _firmware_version, options,
                   pc, cyc, log, hist, result, fresh, away, calls>>

NextTwo ==
    \/ \E e \in Entries, forced \in BOOLEAN : entry_refresh(e, forced)
    \/ \E e \in Entries, option \in Modes : entry_select_option(e, option)
    \/ \E e \in Entries, o \in PostOutcomes, v \in Firmwares,
           f \in FetchOutcomes, x \in ComposeFaults : entry_answered(e, o, v, f, x)
    \/ \E e \in Entries : entry_reload(e)

SpecTwo == Init /\ [][NextTwo]_vars

\* the calls of one function of the image processor made so far
CallsOf(fn) == {k \in 1..Len(calls) : calls[k].fn = fn}
\* the frames normalise to pictures of which no two in a row are the same
NoRepeat(frames) ==
    \A k \in 1..(Len(frames) - 1) : _process_frame(frames[k]) # _process_frame(frames[k+1])

C26_CentreCrop ==
    \A k \in CallsOf("_process_frame") :
        LET c == calls[k]
            W == c.frame.w
            H == c.frame.h
            left == c.out.image.box[1]
            top == c.out.image.box[2]
            right == c.out.image.box[3]
            bottom == c.out.image.box[4]
        IN c.frame.decodable
            => /\ c.out.ok
               /\ right - left = Min(W, H) /\ bottom - top = Min(W, H)
               /\ left = (W - Min(W, H)) \div 2 /\ top = (H - Min(W, H)) \div 2
               /\ 0 <= left /\ right <= W /\ 0 <= top /\ bottom <= H
               /\ (W - right) - left \in {0, 1}
               /\ (H - bottom) - top \in {0, 1}
               /\ c.out.image.size = <<240, 240>>

\* a landscape source whose margins cannot be equal
C26_Witness ==
    \E k \in CallsOf("_process_frame") :
        /\ calls[k].frame.decodable
        /\ calls[k].frame.w > calls[k].frame.h + 2
        /\ (calls[k].frame.w - calls[k].frame.h) % 2 = 1
        /\ calls[k].out.image.box[1] >= 1

\* C27: the text rendered for a frame is the first 22 characters of its label:
\* the whole label when it has at most 22 characters (the empty one included),
\* its 22-character prefix otherwise; the labels the cycle returns are the
\* labels of the frames as passed, not truncated.
C27_LabelTruncation ==
    /\ \A k \in CallsOf("_process_frame") :
        LET c == calls[k] IN
        c.frame.decodable
            => /\ Len(c.frame.label) <= 22 => c.out.image.text = c.frame.label
               /\ Len(c.frame.label) > 22
                    => /\ Len(c.out.image.text) = 22
                       /\ \A i \in 1..22 : c.out.image.text[i] = c.frame.label[i]
    /\ \A k \in CallsOf("create_camera_gif") :
        LET c == calls[k] IN
        /\ Len(c.labels) = Len(c.frames)
        /\ \A i \in 1..Len(c.frames) : c.labels[i] = c.frames[i].label
        /\ c.out.ok => \A i \in 1..Len(c.out.frames) : Len(c.out.frames[i].image.text) <= 22

\* a label of more than 22 characters was rendered
C27_Witness ==
    \E k \in CallsOf("_process_frame") :
        /\ calls[k].frame.decodable
        /\ Len(calls[k].frame.label) > 22
        /\ Len(calls[k].out.image.text) = 22

\* C28: with the coordinators of several entries side by side, no step of one
\* of them (a refresh, forced or not, a mode selection, an answer to any await
\* of its cycle in either mode, failures included, a reload) changes the
\* needs_reinit or the last_known_firmware of another.
C28_DevicesIndependent ==
    [][ \A d, e \in Entries :
            (d # e /\ coordinators'[e] # coordinators[e])
                => /\ coordinators'[d]._needs_album_init = coordinators[d]._needs_album_init
                   /\ coordinators'[d]._firmware_version = coordinators[d]._firmware_version
      ]_vars

\* one device has been updated and its flag cleared while the cycle of the
\* other one failed at the probe and left it as constructed
C28_Witness ==
    \E d, e \in Entries :
        /\ ~coordinators[d]._needs_album_init
        /\ coordinators[d]._firmware_version # CoordinatorInit.firmware_version
        /\ coordinators[e].last = "UpdateFailed"
        /\ coordinators[e]._needs_album_init
        /\ coordinators[e]._firmware_version = CoordinatorInit.firmware_version

\* C31: a force_refresh is never lost to a cycle in flight: whenever the flag
\* goes from true to false while a coroutine that forced a refresh is in
\* flight and the flag has not been cleared since it set it, the mode-switch
\* command set_theme(3) has been issued since it set the flag.
C31_ForceRefreshNotLost ==
    [][ (_needs_album_init /\ ~_needs_album_init')
            => \A u \in Tasks :
                 (InFlight(u) /\ hist[u].forced /\ ~hist[u].cleared)
                    => hist[u].themeSince
      ]_vars

\* a step under the conditions of C32: the mode is and stays cameras, the
\* options are not saved and the coordinator is not constructed anew (no
\* coroutine is dropped), no refresh is forced, a cycle
\* that has read the options goes on to fetch, the fetch loop ends with a
\* frame, and whatever is answered is a success
SteadyStep ==
    /\ options.mode = MODE_CAMERAS /\ options' = options
    /\ ~(fresh' /\ ~fresh)
    /\ \A t \in Tasks :
        /\ ~(hist'[t].forced /\ ~hist[t].forced)
        /\ (pc'[t] = "idle" /\ pc[t] # "idle") => pc[t] = "done"
        /\ (pc[t] = "get_info" /\ pc'[t] # "get_info") => pc'[t] = "fetch"
        /\ (pc[t] = "fetch" /\ pc'[t] # "fetch") => pc'[t] = "create_camera_gif"
        /\ Len(log'[t]) > Len(log[t])
             => \/ log'[t][Len(log'[t])][1] = "fetch"
                \/ log'[t][Len(log'[t])][2] \in {"ok", "gif"}

\* C32: with the timer firing and every await answered, if from some point on
\* the mode stays cameras, every cycle fetches at least one frame and composes
\* it, every device request succeeds and no refresh is forced (nor the
\* coordinator constructed anew), then needs_reinit eventually becomes false
\* and stays false.
C32_EventuallyInitialised ==
    (<>[][SteadyStep]_vars) => <>[](~_needs_album_init)

\* a timer cycle that began with the flag set has fetched, composed,
\* re-initialised, uploaded and displayed, and returns with the flag clear
C32_Witness ==
    \E t \in Tasks :
        /\ pc[t] = "done" /\ ~hist[t].forced /\ hist[t].startNeeds
        /\ result[t].kind = "return" /\ result[t].cameras # <<>>
        /\ \E k \in 1..Len(log[t]) : log[t][k] = <<"set_gif", "ok">>
        /\ \A k \in 1..Len(log[t]) :
               log[t][k][1] = "fetch" \/ log[t][k][2] \in {"ok", "gif"}
        /\ ~_needs_album_init

====
